---- MODULE Spec2Model ----
(***************************************************************************)
(* Model of the course search backend, src/server/server.js: the handler   *)
(* of POST /api/courses (the staged waits on the catalog page, the course  *)
(* resolver, the section extractor, the date normaliser and the term       *)
(* classifier) and the shared browser instance it runs on.                 *)
(*                                                                         *)
(* Text is a sequence of one-character strings, so that the regular        *)
(* expressions, split, trim and Number of the source are computed on the   *)
(* characters as the source computes them.  The texts of the model are     *)
(* over ASCII letters, digits, ' ', tab, '/', '-', '*', '+' and ':'.       *)
(***************************************************************************)
EXTENDS Integers, Sequences, FiniteSets, TLC

\* ------------------------------------------------------------------------
\* Characters
\* ------------------------------------------------------------------------
UpperSeq ==
  << "A","B","C","D","E","F","G","H","I","J","K","L","M",
     "N","O","P","Q","R","S","T","U","V","W","X","Y","Z" >>

LowerSeq ==
  << "a","b","c","d","e","f","g","h","i","j","k","l","m",
     "n","o","p","q","r","s","t","u","v","w","x","y","z" >>

DigitSeq == << "0","1","2","3","4","5","6","7","8","9" >>

Range(f) == { f[i] : i \in DOMAIN f }

\* [A-Z] under the i flag
Letters == Range(UpperSeq) \cup Range(LowerSeq)

IsLetter(c) == c \in Letters

\* \d
Digits == Range(DigitSeq)

IsDigit(c) == c \in Digits

\* \s, and the characters trim() strips
Spaces == {" ", "\t"}

IsSpace(c) == c \in Spaces

DigitVal(c) == (CHOOSE i \in DOMAIN DigitSeq : DigitSeq[i] = c) - 1

ToUpperChar(c) ==
  IF c \in Range(LowerSeq)
    THEN UpperSeq[CHOOSE i \in DOMAIN LowerSeq : LowerSeq[i] = c]
    ELSE c

\* String.prototype.toUpperCase
ToUpperCase(s) == [ i \in DOMAIN s |-> ToUpperChar(s[i]) ]

\* String.prototype.trim
RECURSIVE TrimLeft(_)
TrimLeft(s) ==
  IF s # << >> /\ IsSpace(Head(s)) THEN TrimLeft(Tail(s)) ELSE s

RECURSIVE TrimRight(_)
TrimRight(s) ==
  IF s # << >> /\ IsSpace(s[Len(s)]) THEN TrimRight(SubSeq(s, 1, Len(s) - 1)) ELSE s

Trim(s) == TrimRight(TrimLeft(s))

\* the end of the longest run of characters of a class that starts at i
\* (i - 1 when s[i] is not in the class)
RunEnd(s, i, class) ==
  CHOOSE j \in (i - 1)..Len(s) :
    /\ \A k \in i..j : s[k] \in class
    /\ (j < Len(s) => s[j + 1] \notin class)

\* the positions where the text sub occurs in s
Occurrences(s, sub) ==
  { i \in 1..(Len(s) - Len(sub) + 1) : SubSeq(s, i, i + Len(sub) - 1) = sub }

\* String.prototype.includes
Includes(s, sub) == Occurrences(s, sub) # {}

Min(S) == CHOOSE x \in S : \A y \in S : x <= y

Max(S) == CHOOSE x \in S : \A y \in S : x >= y

\* String.prototype.split with a non-empty separator
RECURSIVE Split(_, _)
Split(s, sep) ==
  IF Occurrences(s, sep) = {}
    THEN << s >>
    ELSE LET i == Min(Occurrences(s, sep))
         IN  << SubSeq(s, 1, i - 1) >> \o Split(SubSeq(s, i + Len(sep), Len(s)), sep)

\* ------------------------------------------------------------------------
\* Course Resolver: the page.evaluate of courseDetails
\* ------------------------------------------------------------------------
NoText == << >>

\* the result of String.prototype.match: null, or the captured groups
NoMatch == [found |-> FALSE, prefix |-> NoText, number |-> NoText]

\* /([A-Z]+)[\s\*](\d+)/i tried at position i: the letters are matched
\* greedily and given back one at a time until a separator and a digit follow
CodeLengthsAt(s, i) ==
  { k \in 1..(RunEnd(s, i, Letters) - i + 1) :
      /\ i + k + 1 <= Len(s)
      /\ IsSpace(s[i + k]) \/ s[i + k] = "*"
      /\ IsDigit(s[i + k + 1]) }

\* name?.match(/([A-Z]+)[\s\*](\d+)/i): the leftmost match
courseCodeMatch(s) ==
  LET starts == { i \in 1..Len(s) : CodeLengthsAt(s, i) # {} }
  IN  IF starts = {}
        THEN NoMatch
        ELSE LET i == Min(starts)
                 k == Max(CodeLengthsAt(s, i))
             IN  [found  |-> TRUE,
                  prefix |-> SubSeq(s, i, i + k - 1),
                  number |-> SubSeq(s, i + k + 1, RunEnd(s, i + k + 1, Digits))]

\* searchQuery.replace(/\+/g, '').toUpperCase()
cleanSearchQuery(searchQuery) ==
  ToUpperCase(SelectSeq(searchQuery, LAMBDA c : c # "+"))

\* the first run of characters of a class in s: what match(/([class]+)/)?.[1]
\* gives (undefined is NoMatchText, which equals no text a capture can hold)
NoMatchText == << "undefined" >>

FirstRun(s, class) ==
  LET starts == { i \in 1..Len(s) : s[i] \in class }
  IN  IF starts = {}
        THEN NoMatchText
        ELSE SubSeq(s, Min(starts), RunEnd(s, Min(starts), class))

searchPrefix(searchQuery) == FirstRun(cleanSearchQuery(searchQuery), Letters)

searchNumber(searchQuery) == FirstRun(cleanSearchQuery(searchQuery), Digits)

\* line 117 with && for ||: gives up only when both differ
CodeMismatchBoth(prefix, number, sPrefix, sNumber) ==
  ToUpperCase(prefix) # sPrefix /\ number # sNumber

\* the test of line 117: true when the resolver gives up
CodeMismatch(prefix, number, sPrefix, sNumber) ==
  ToUpperCase(prefix) # sPrefix \/ number # sNumber

NullCourse == [ok |-> FALSE, name |-> NoText, description |-> NoText]

\* the value of courseDetails for the first result's title and description
\* as they stand in the page (textContent, not yet trimmed)
courseDetails(titleText, descriptionText, searchQuery) ==
  LET name == Trim(titleText)
      m    == courseCodeMatch(name)
  IN  IF ~m.found
        THEN NullCourse
        ELSE IF CodeMismatch(m.prefix, m.number,
                             searchPrefix(searchQuery), searchNumber(searchQuery))
          THEN NullCourse
          ELSE [ok |-> TRUE, name |-> name, description |-> Trim(descriptionText)]

\* ------------------------------------------------------------------------
\* Number and Date of the language, as the normaliser uses them
\* ------------------------------------------------------------------------
\* the digits of a decimal literal (after trim and an optional sign)
NumberDigits(part) ==
  LET t == Trim(part)
  IN  IF t # << >> /\ Head(t) \in {"+", "-"} THEN Tail(t) ELSE t

\* isNaN(Number(part)): Number of an empty or blank text is 0; over the
\* characters of the model a text is a number when it is an optionally
\* signed run of digits
NumberIsNaN(part) ==
  /\ Trim(part) # << >>
  /\ \/ NumberDigits(part) = << >>
     \/ \E i \in DOMAIN NumberDigits(part) : ~IsDigit(NumberDigits(part)[i])

RECURSIVE DecimalValue(_)
DecimalValue(ds) ==
  IF ds = << >> THEN 0
  ELSE 10 * DecimalValue(SubSeq(ds, 1, Len(ds) - 1)) + DigitVal(ds[Len(ds)])

\* Number(part), for a part that is a number
NumberValue(part) ==
  IF Trim(part) # << >> /\ Head(Trim(part)) = "-"
    THEN 0 - DecimalValue(NumberDigits(part))
    ELSE DecimalValue(NumberDigits(part))

\* the day number (days since 1970-01-01) of the first day of year y
DayFromYear(y) ==
  365 * (y - 1970) + ((y - 1969) \div 4) - ((y - 1901) \div 100) + ((y - 1601) \div 400)

InLeapYear(y) == (y % 4 = 0 /\ y % 100 # 0) \/ y % 400 = 0

\* the days of the year before month index m (0 = January)
DaysBeforeMonth(m, leap) ==
  LET plain == << 0, 31, 59, 90, 120, 151, 181, 212, 243, 273, 304, 334 >>
  IN  plain[m + 1] + (IF leap /\ m >= 2 THEN 1 ELSE 0)

\* MakeDay(year, month, date) of the language: a month index outside 0..11
\* carries into the year, a day outside the month carries into the month
MakeDay(year, month, date) ==
  LET ym == year + (month \div 12)
      mn == month % 12
  IN  DayFromYear(ym) + DaysBeforeMonth(mn, InLeapYear(ym)) + date - 1

\* new Date(year, monthIndex, day): a local midnight, held as its day number;
\* a year 0..99 means 1900 + year; the date is invalid (getTime() is NaN)
\* only beyond 100,000,000 days from the epoch
NewDate(year, monthIndex, day) ==
  LET yr == IF year >= 0 /\ year <= 99 THEN 1900 + year ELSE year
      dn == MakeDay(yr, monthIndex, day)
  IN  [valid |-> dn >= -100000000 /\ dn <= 100000000, day |-> dn]

\* ------------------------------------------------------------------------
\* Section Extractor: the page.evaluate of extractedData
\* ------------------------------------------------------------------------
NoDateInfo == << "N","o"," ","D","a","t","e"," ","I","n","f","o" >>

AllDigits(s, from, to) == \A k \in from..to : IsDigit(s[k])

\* the positions where a match of \d{1,2}\/\d{1,2}\/\d{4} that starts at i
\* can end: a and b are the lengths of the month and the day
DateEndsAt(s, i) ==
  { i + ab[1] + ab[2] + 5 :
      ab \in { x \in (1..2) \X (1..2) :
                 /\ i + x[1] + x[2] + 5 <= Len(s)
                 /\ AllDigits(s, i, i + x[1] - 1)
                 /\ s[i + x[1]] = "/"
                 /\ AllDigits(s, i + x[1] + 1, i + x[1] + x[2])
                 /\ s[i + x[1] + x[2] + 1] = "/"
                 /\ AllDigits(s, i + x[1] + x[2] + 2, i + x[1] + x[2] + 5) } }

\* text.match(/(\d{1,2}\/\d{1,2}\/\d{4})\s*-\s*(\d{1,2}\/\d{1,2}\/\d{4})/)
MatchesDateRange(s) ==
  \E i \in 1..Len(s) :
    \E e \in DateEndsAt(s, i) :
      \E j \in (e + 1)..(RunEnd(s, e + 1, Spaces) + 1) :
        /\ j <= Len(s)
        /\ s[j] = "-"
        /\ \E m \in (j + 1)..(RunEnd(s, j + 1, Spaces) + 1) :
             DateEndsAt(s, m) # {}

\* allTimes: the trimmed texts of the row's meeting-time spans that match
allTimes(spans) ==
  SelectSeq([ i \in DOMAIN spans |-> Trim(spans[i]) ], MatchesDateRange)

\* the dates field of a row
rowDates(spans) ==
  IF Len(allTimes(spans)) > 0 THEN allTimes(spans)[1] ELSE NoDateInfo

\* one element of extractedData, from the texts found in one section <li>
\* ("" stands for an element that is absent or has no text)
ExtractRow(li) ==
  [ sectionName |-> IF li.link = "" THEN "No Section name provided" ELSE li.link,
    professor   |-> li.officeHours,
    seats       |-> IF li.seatsText = "" THEN "No Seat Data" ELSE li.seatsText,
    dates       |-> rowDates(li.spans) ]

extractedData(lis) == [ i \in DOMAIN lis |-> ExtractRow(lis[i]) ]

\* ------------------------------------------------------------------------
\* Date Normalizer and Term Classifier: the body of extractedData.forEach
\* ------------------------------------------------------------------------
\* termConstraints
termConstraints ==
  << [term |-> "Fall 2024",   start |-> NewDate(2024, 8, 1), end |-> NewDate(2024, 11, 20)],
     [term |-> "Spring 2025", start |-> NewDate(2025, 0, 13), end |-> NewDate(2025, 4, 7)],
     [term |-> "Fall 2025",   start |-> NewDate(2025, 8, 1), end |-> NewDate(2025, 11, 20)] >>

\* sortedCoursesAndTerms as first assigned
EmptyTerms == [ i \in DOMAIN termConstraints |->
                  [term |-> termConstraints[i].term, sections |-> << >>] ]

\* startParts.map(part => { const num = Number(part); return isNaN(num) ? 0 : num })
PartNumber(part) == IF NumberIsNaN(part) THEN 0 ELSE NumberValue(part)

\* formattedStartYear, formattedEndYear
formattedYear(year) == IF year < 100 THEN 2000 + year ELSE year

\* startDateFormat, endDateFormat from the three parts of one side
DateFormat(parts) ==
  NewDate(formattedYear(PartNumber(parts[3])), PartNumber(parts[1]) - 1, PartNumber(parts[2]))

\* the zero test with the day left out
HasZeroMonthOrYear(parts) ==
  PartNumber(parts[1]) = 0 \/ PartNumber(parts[3]) = 0

\* the zero test on one side's parts
HasZeroPart(parts) ==
  PartNumber(parts[1]) = 0 \/ PartNumber(parts[2]) = 0 \/ PartNumber(parts[3]) = 0

Rejected == [ok |-> FALSE, start |-> 0, end |-> 0]

\* the chain of returns of lines 242-283: the dates of a row as a pair of
\* day numbers, or Rejected
NormalizeDates(dates) ==
  IF dates = NoText \/ dates = NoDateInfo THEN Rejected
  ELSE IF ~Includes(dates, << " ", "-", " " >>) THEN Rejected
  ELSE LET pieces     == Split(dates, << " ", "-", " " >>)
           start      == pieces[1]
           end        == pieces[2]
           startParts == Split(start, << "/" >>)
           endParts   == Split(end, << "/" >>)
       IN  IF start = NoText \/ end = NoText THEN Rejected
           ELSE IF Len(startParts) # 3 \/ Len(endParts) # 3 THEN Rejected
           ELSE IF HasZeroPart(startParts) THEN Rejected
           ELSE IF HasZeroPart(endParts) THEN Rejected
           ELSE IF ~DateFormat(startParts).valid \/ ~DateFormat(endParts).valid THEN Rejected
           ELSE [ok |-> TRUE, start |-> DateFormat(startParts).day,
                 end |-> DateFormat(endParts).day]

\* line 286 testing overlap in place of containment
InTermOverlap(startDay, endDay, term) ==
  startDay <= term.end.day /\ endDay >= term.start.day

\* the test of line 286
InTerm(startDay, endDay, term) ==
  startDay >= term.start.day /\ endDay <= term.end.day

\* the section pushed at lines 287-293
SectionOf(course, range) ==
  [ name      |-> IF course.sectionName = "" THEN "Unknown Section" ELSE course.sectionName,
    professor |-> IF course.professor = "" THEN "No Professor" ELSE course.professor,
    seats     |-> IF course.seats = "" THEN "No Seat Data" ELSE course.seats,
    startDate |-> range.start,
    endDate   |-> range.end ]

\* one turn of extractedData.forEach on the term buckets
ClassifyRow(terms, course) ==
  LET range == NormalizeDates(course.dates)
  IN  IF ~range.ok THEN terms
      ELSE [ i \in DOMAIN terms |->
               IF InTerm(range.start, range.end, termConstraints[i])
                 THEN [terms[i] EXCEPT !.sections = Append(@, SectionOf(course, range))]
                 ELSE terms[i] ]

\* extractedData.forEach with a row's return ending the whole loop
RECURSIVE ClassifyAllUntilSkip(_, _)
ClassifyAllUntilSkip(terms, rows) ==
  IF rows = << >> THEN terms
  ELSE IF ~NormalizeDates(Head(rows).dates).ok THEN terms
  ELSE ClassifyAllUntilSkip(ClassifyRow(terms, Head(rows)), Tail(rows))

\* extractedData.forEach(course => ...) on the term buckets: lines 241-300
RECURSIVE ClassifyAll(_, _)
ClassifyAll(terms, rows) ==
  IF rows = << >> THEN terms
  ELSE ClassifyAll(ClassifyRow(terms, Head(rows)), Tail(rows))

\* the term buckets answered as they are, with line 303 left out
AllTerms(terms) == terms

\* sortedCoursesAndTerms.filter(e => e.sections.length > 0)
NonEmptyTerms(terms) == SelectSeq(terms, LAMBDA e : Len(e.sections) > 0)

\* sortedCoursesAndTerms of the response, from the rows extracted
sortedCoursesAndTerms(rows) == NonEmptyTerms(ClassifyAll(EmptyTerms, rows))

\* ------------------------------------------------------------------------
\* The handler of POST /api/courses and the shared browser
\* ------------------------------------------------------------------------
\* the number of requests the server is sent
NumReqs == 2

Reqs == 1..NumReqs

VARIABLES
  browser,      \* the module's browser: "undefined" until the launch resolves
  pc,           \* per request: the await the handler is suspended at
  name,         \* per request: req.body.name (NoText when missing or empty)
  page,         \* per request: the handler's page: "undefined", "open", "closed"
  sent,         \* per request: the responses sent, in order
  details,      \* per request: courseDetails
  timedOut,     \* per request: the wait that failed or timed out, or "none"
  steps,        \* per request: the steps of the pipeline run so far, in order
  closes,       \* per request: the page.close() calls completed on its page
  rejected,     \* per request: the handler's promise was rejected
  seen,         \* per request: what the awaited calls returned, in order
  rendered,     \* what page.evaluate computes on each content the site renders
  titleText,    \* resolver alone: the title of the first result
  searchQuery,  \* resolver alone: the query
  resolved,     \* resolver alone: << >> or << courseDetails >>
  shown,        \* one row alone: the dates and the layout the page writes them in
  li,           \* one row alone: the texts of one section <li>
  course,       \* one row alone: << >> or << the row extracted from li >>
  terms,        \* one row alone: << >> or << the term buckets after the row >>
  result,       \* one row alone: << >> or << sortedCoursesAndTerms of the response >>
  panel,        \* rows alone: the section <li>s of the terms panel
  reply         \* rows alone: << >> or << the response of lines 305-308 >>

handlerVars == << browser, pc, name, page, sent, details, timedOut, steps, closes, rejected, seen, rendered >>

resolverVars == << titleText, searchQuery, resolved >>

dateVars == << shown, li, course, terms, result >>

rowsVars == << panel, reply >>

vars == << handlerVars, resolverVars, dateVars, rowsVars >>

\* the queries of the requests
Names == { NoText, << "C","S","*","2","0","6","0" >> }

\* the title of the first result row, as the page may render it
PageTitles == { << "C","S","*","2","0","6","0"," ","I","n","t","r","o" >>, << "C","S","*","2","0","6","1"," ","D","a","t","a" >> }

PageDescription == << "d" >>

\* the section <li>s of the terms panel, as the page may render them
PageSections ==
  { << [link |-> "01", officeHours |-> "Staff", seatsText |-> "3",
        spans |-> << << "M","W","F"," ","9",":","0","0" >>, << "0","9","/","0","3","/","2","0","2","4"," ","-"," ","1","2","/","1","6","/","2","0","2","4" >> >>] >>,
    << [link |-> "", officeHours |-> "", seatsText |-> "",
        spans |-> << << "M","W","F"," ","9",":","0","0" >> >>],
       [link |-> "02", officeHours |-> "", seatsText |-> "0",
        spans |-> << << "1","2","/","2","5","/","2","0","2","5"," ","-"," ","0","9","/","0","5","/","2","0","2","4" >> >>] >> }

\* the body of a response
Response(status, error, message, courseRec, termList) ==
  [status |-> status, error |-> error, message |-> message,
   course |-> courseRec, sortedCoursesAndTerms |-> termList]

ErrorResponse(status, error, message) ==
  Response(status, error, message, NullCourse, << >>)

InvalidBody    == ErrorResponse(400, "Invalid request body", "Course name is required")
NavigationFail == ErrorResponse(503, "Navigation failed", "Failed to access course search page")
NoResults      == ErrorResponse(404, "Course not found", "No results found for course")
NoExactMatch   == ErrorResponse(404, "Course not found", "No exact match found for course")
InternalError  == ErrorResponse(500, "Internal server error", "An unexpected error occurred")

\* the term list kept at module level and never emptied: a response carries
\* the sections of an earlier response before its own
SuccessAfterEarlier(courseRec, termList) ==
  LET earlier == { q \in Reqs : sent[q] # << >> /\ sent[q][1].status = 200 }
  IN  Response(200, "", "", courseRec,
               IF earlier = {} THEN termList
               ELSE sent[CHOOSE q \in earlier : TRUE][1].sortedCoursesAndTerms \o termList)

\* res.json({ course, sortedCoursesAndTerms })
Success(courseRec, termList) == Response(200, "", "", courseRec, termList)

\* page.close() at the end of the try block in place of the finally block:
\* only the request that ran the whole pipeline closes its page
FinallyOnFullRun(r) ==
  IF browser = "undefined" \/ pc[r] # "extractedData" THEN "done"
  ELSE IF page[r] = "undefined" THEN "rejected"
  ELSE "closing"

\* the finally block, entered as the handler returns or its catch ends:
\* if (browser) await page.close().  With no page the call throws and the
\* handler's promise is rejected.
Finally(r) ==
  IF browser = "undefined" THEN "done"
  ELSE IF page[r] = "undefined" THEN "rejected"
  ELSE "closing"

\* a response sent with no return after it: the handler stays where it is
Resend(r, response) ==
  /\ sent' = [sent EXCEPT ![r] = Append(@, response)]
  /\ UNCHANGED << pc, rejected >>

\* a return with no response sent before it
LeaveSilently(r, response) ==
  /\ pc' = [pc EXCEPT ![r] = IF Finally(r) = "closing" THEN "closing" ELSE "done"]
  /\ rejected' = [rejected EXCEPT ![r] = Finally(r) = "rejected"]
  /\ UNCHANGED sent

\* the handler sends a response and leaves the try block
Leave(r, response) ==
  /\ sent' = [sent EXCEPT ![r] = Append(@, response)]
  /\ pc' = [pc EXCEPT ![r] = IF Finally(r) = "closing" THEN "closing" ELSE "done"]
  /\ rejected' = [rejected EXCEPT ![r] = Finally(r) = "rejected"]

\* the handler goes on to its next await
Continue(r, next) ==
  /\ pc' = [pc EXCEPT ![r] = next]
  /\ UNCHANGED << sent, rejected >>

Ran(r, step) == steps' = [steps EXCEPT ![r] = Append(@, step)]

\* what the handler answers when a wait or a check of the pipeline fails
\* lines 46-50 with no try around them: the outer catch answers
GotoUncaught == InternalError

GotoFailed == NavigationFail            \* catch of lines 51-59

\* lines 62-64 with no try around them: the outer catch answers
SearchListUncaught == InternalError

SearchListTimeout == NoResults          \* catch of lines 65-70

NoCourseRows == NoResults               \* lines 78-83

FirstResultTimeout == InternalError     \* no try around lines 86-97: outer catch

CourseUnresolved == NoExactMatch        \* lines 124-129

\* lines 133-154 with no try around them: the outer catch answers
ToggleUncaught(courseRec) == InternalError

ToggleUnavailable(courseRec) == Success(courseRec, << >>)   \* lines 143-148, 155-160

TermsPanelTimeout == InternalError      \* no try around lines 163-166: outer catch

TermHeadersTimeout == InternalError     \* no try around lines 169-177: outer catch

\* what an awaited call returned to the handler: whether it succeeded, and
\* the texts it read from the page
Returned(step, ok, text, lis) == [step |-> step, ok |-> ok, text |-> text, lis |-> lis]

Saw(r, step, ok) == seen' = [seen EXCEPT ![r] = Append(@, Returned(step, ok, NoText, << >>))]

\* (async () => { browser = await puppeteer.launch(...) })()
LaunchBrowser ==
  /\ browser = "undefined"
  /\ browser' = "launched"
  /\ UNCHANGED << pc, name, page, sent, details, timedOut, steps, closes, rejected, seen, rendered >>
  /\ UNCHANGED << resolverVars, dateVars, rowsVars >>

\* a request arrives: lines 32-43, up to the call of browser.newPage(),
\* which throws when there is no browser yet
Receive(r) ==
  /\ pc[r] = "idle"
  /\ \E n \in Names :
       /\ name' = [name EXCEPT ![r] = n]
       /\ IF n = NoText
            THEN /\ Leave(r, InvalidBody)
                 /\ UNCHANGED seen
            ELSE IF browser = "undefined"
              THEN /\ Leave(r, InternalError)
                   /\ Saw(r, "newPage", FALSE)
              ELSE /\ Continue(r, "newPage")
                   /\ UNCHANGED seen
  /\ UNCHANGED << browser, page, details, timedOut, steps, closes, rendered >>
  /\ UNCHANGED << resolverVars, dateVars, rowsVars >>

\* page = await browser.newPage() resolves: line 43
NewPage(r) ==
  /\ pc[r] = "newPage"
  /\ page' = [page EXCEPT ![r] = "open"]
  /\ Saw(r, "newPage", TRUE)
  /\ Continue(r, "navigation")
  /\ UNCHANGED << browser, name, details, timedOut, steps, closes, rendered >>
  /\ UNCHANGED << resolverVars, dateVars, rowsVars >>

\* a wait of the pipeline: it succeeds, or it fails or times out and the
\* handler answers with onTimeout
Wait(r, stage, next, onTimeout) ==
  /\ pc[r] = stage
  /\ Ran(r, stage)
  /\ \/ /\ Continue(r, next)
        /\ Saw(r, stage, TRUE)
        /\ UNCHANGED timedOut
     \/ /\ timedOut' = [timedOut EXCEPT ![r] = stage]
        /\ Saw(r, stage, FALSE)
        /\ Leave(r, onTimeout)
  /\ UNCHANGED << browser, name, page, details, closes, rendered >>
  /\ UNCHANGED << resolverVars, dateVars, rowsVars >>

\* a check of the pipeline: page.evaluate returns true or false (page.$eval
\* returns or throws), and on the latter the handler answers with onFalse
Check(r, step, next, onFalse) ==
  /\ pc[r] = step
  /\ Ran(r, step)
  /\ \/ /\ Continue(r, next)
        /\ Saw(r, step, TRUE)
     \/ /\ Leave(r, onFalse)
        /\ Saw(r, step, FALSE)
  /\ UNCHANGED << browser, name, page, details, timedOut, closes, rendered >>
  /\ UNCHANGED << resolverVars, dateVars, rowsVars >>

\* await page.goto(...): lines 46-59
Navigate(r) == Wait(r, "navigation", "SearchListReady", GotoFailed)

\* the two waitForSelector of lines 62-70
WaitSearchList(r) == Wait(r, "SearchListReady", "courseExists", SearchListTimeout)

\* courseExists: lines 73-83
CheckCourseExists(r) == Check(r, "courseExists", "FirstResultRendered", NoCourseRows)

\* the waitForFunction of lines 86-97
WaitFirstResult(r) == Wait(r, "FirstResultRendered", "courseDetails", FirstResultTimeout)

\* the site renders one of a few contents to each page; the values its
\* page.evaluate calls compute are those of the code on that content:
\* courseDetails of lines 100-122 for each title of the page and each query
PageCourseDetails ==
  { [title |-> t, query |-> n, found |-> courseDetails(t, PageDescription, n)] :
      t \in PageTitles, n \in Names }

\* sortedCoursesAndTerms of lines 180-303 for each terms panel of the page
PageTerms ==
  { [lis |-> lis, terms |-> sortedCoursesAndTerms(extractedData(lis))] :
      lis \in PageSections }

\* courseDetails: lines 100-129
ResolveCourse(r) ==
  /\ pc[r] = "courseDetails"
  /\ Ran(r, "courseDetails")
  /\ \E t \in PageTitles :
       LET found == (CHOOSE e \in rendered.courseDetails : e.title = t /\ e.query = name[r]).found
       IN  /\ details' = [details EXCEPT ![r] = found]
           /\ seen' = [seen EXCEPT ![r] = Append(@, Returned("courseDetails", found.ok, t, << >>))]
           /\ IF found.ok
                THEN Continue(r, "SectionsToggleVisible")
                ELSE Leave(r, CourseUnresolved)
  /\ UNCHANGED << browser, name, page, timedOut, closes, rendered >>
  /\ UNCHANGED << resolverVars, dateVars, rowsVars >>

\* the waitForSelector of lines 133-136, in the try of lines 132-160
WaitSectionsToggle(r) ==
  Wait(r, "SectionsToggleVisible", "buttonExists", ToggleUnavailable(details[r]))

\* buttonExists: lines 138-148
CheckButtonExists(r) == Check(r, "buttonExists", "click", ToggleUnavailable(details[r]))

\* page.$eval(..., button => button.click()): lines 151-160; it throws when
\* the button is gone, which the catch of line 155 answers
ClickToggle(r) == Check(r, "click", "TermsPanelReady", ToggleUnavailable(details[r]))

\* the waitForSelector of lines 163-166
WaitTermsPanel(r) == Wait(r, "TermsPanelReady", "TermHeadersRendered", TermsPanelTimeout)

\* the waitForFunction of lines 169-177
WaitTermHeaders(r) == Wait(r, "TermHeadersRendered", "extractedData", TermHeadersTimeout)

\* extractedData, the classification of its rows and res.json: lines 180-308
ExtractAndClassify(r) ==
  /\ pc[r] = "extractedData"
  /\ steps' = [steps EXCEPT ![r] = @ \o << "extractedData", "classification" >>]
  /\ \E lis \in PageSections :
       /\ seen' = [seen EXCEPT ![r] = Append(@, Returned("extractedData", TRUE, NoText, lis))]
       /\ Leave(r, Success(details[r], (CHOOSE e \in rendered.terms : e.lis = lis).terms))
  /\ UNCHANGED << browser, name, page, details, timedOut, closes, rendered >>
  /\ UNCHANGED << resolverVars, dateVars, rowsVars >>

\* `page` declared at module level: a run closes the page opened last,
\* which is another run's when that run opened its page in between
SharedPage(r) ==
  IF \E q \in Reqs : q # r /\ page[q] = "open"
    THEN CHOOSE q \in Reqs : q # r /\ page[q] = "open"
    ELSE r

\* `page` is declared in the handler (let page, line 32): a run closes the
\* page it opened
OwnPage(r) == r

\* the page.close() awaited in the finally block resolves
ClosePage(r) ==
  /\ pc[r] = "closing"
  /\ page' = [page EXCEPT ![OwnPage(r)] = "closed"]
  /\ closes' = [closes EXCEPT ![OwnPage(r)] = @ + 1]
  /\ pc' = [pc EXCEPT ![r] = "done"]
  /\ UNCHANGED << browser, name, sent, details, timedOut, steps, rejected, seen, rendered >>
  /\ UNCHANGED << resolverVars, dateVars, rowsVars >>

Init ==
  /\ browser = "undefined"
  /\ pc = [r \in Reqs |-> "idle"]
  /\ name = [r \in Reqs |-> NoText]
  /\ page = [r \in Reqs |-> "undefined"]
  /\ sent = [r \in Reqs |-> << >>]
  /\ details = [r \in Reqs |-> NullCourse]
  /\ timedOut = [r \in Reqs |-> "none"]
  /\ steps = [r \in Reqs |-> << >>]
  /\ closes = [r \in Reqs |-> 0]
  /\ rejected = [r \in Reqs |-> FALSE]
  /\ seen = [r \in Reqs |-> << >>]
  /\ rendered = [courseDetails |-> PageCourseDetails, terms |-> PageTerms]
  /\ panel = << >>
  /\ reply = << >>
  /\ titleText = NoText
  /\ searchQuery = NoText
  /\ resolved = << >>
  /\ shown = << >>
  /\ li = << >>
  /\ course = << >>
  /\ terms = << >>
  /\ result = << >>

Next ==
  \/ LaunchBrowser
  \/ \E r \in Reqs : Receive(r)
  \/ \E r \in Reqs : NewPage(r)
  \/ \E r \in Reqs : Navigate(r)
  \/ \E r \in Reqs : WaitSearchList(r)
  \/ \E r \in Reqs : CheckCourseExists(r)
  \/ \E r \in Reqs : WaitFirstResult(r)
  \/ \E r \in Reqs : ResolveCourse(r)
  \/ \E r \in Reqs : WaitSectionsToggle(r)
  \/ \E r \in Reqs : CheckButtonExists(r)
  \/ \E r \in Reqs : ClickToggle(r)
  \/ \E r \in Reqs : WaitTermsPanel(r)
  \/ \E r \in Reqs : WaitTermHeaders(r)
  \/ \E r \in Reqs : ExtractAndClassify(r)
  \/ \E r \in Reqs : ClosePage(r)

Spec == Init /\ [][Next]_vars

\* the steps of one run of the handler after its entry
HandlerStep(r) ==
  \/ NewPage(r) \/ Navigate(r) \/ WaitSearchList(r) \/ CheckCourseExists(r)
  \/ WaitFirstResult(r) \/ ResolveCourse(r) \/ WaitSectionsToggle(r)
  \/ CheckButtonExists(r) \/ ClickToggle(r) \/ WaitTermsPanel(r)
  \/ WaitTermHeaders(r) \/ ExtractAndClassify(r) \/ ClosePage(r)

\* every awaited call settles: page.goto and the waits resolve or reject
\* within their timeout, and the event loop then resumes the handler
FairSpec == Init /\ [][Next]_vars /\ \A r \in Reqs : WF_vars(HandlerStep(r))

\* ------------------------------------------------------------------------
\* The Course Resolver on its own: every title and query within the bounds
\* ------------------------------------------------------------------------
MaxTitleLen == 4

MaxQueryLen == 3

\* the texts over a set of characters, up to a length
Texts(chars, maxLen) == UNION { [1..k -> chars] : k \in 0..maxLen }

TitleChars == { "C", "c", "*", " ", "1" }

QueryChars == { "C", "c", "+", "1" }

InitResolver ==
  /\ titleText \in Texts(TitleChars, MaxTitleLen)
  /\ searchQuery \in Texts(QueryChars, MaxQueryLen)
  /\ resolved = << >>
  /\ browser = "undefined"
  /\ pc = [r \in Reqs |-> "idle"]
  /\ name = [r \in Reqs |-> NoText]
  /\ page = [r \in Reqs |-> "undefined"]
  /\ sent = [r \in Reqs |-> << >>]
  /\ details = [r \in Reqs |-> NullCourse]
  /\ timedOut = [r \in Reqs |-> "none"]
  /\ steps = [r \in Reqs |-> << >>]
  /\ closes = [r \in Reqs |-> 0]
  /\ rejected = [r \in Reqs |-> FALSE]
  /\ seen = [r \in Reqs |-> << >>]
  /\ rendered = << >>
  /\ panel = << >>
  /\ reply = << >>
  /\ shown = << >>
  /\ li = << >>
  /\ course = << >>
  /\ terms = << >>
  /\ result = << >>

\* the page.evaluate of lines 100-122 on the title and the query
Resolve ==
  /\ resolved = << >>
  /\ resolved' = << courseDetails(titleText, PageDescription, searchQuery) >>
  /\ UNCHANGED << titleText, searchQuery >>
  /\ UNCHANGED << handlerVars, dateVars, rowsVars >>

NextResolver == Resolve

SpecResolver == InitResolver /\ [][NextResolver]_vars

\* a course code in a title: letters t[i..j], a separator (whitespace or
\* '*') at j + 1, and the digits t[j+2..k] up to the first non-digit
IsCodeAt(t, i, j, k) ==
  /\ 1 <= i /\ i <= j /\ j + 2 <= k /\ k <= Len(t)
  /\ \A x \in i..j : IsLetter(t[x])
  /\ IsSpace(t[j + 1]) \/ t[j + 1] = "*"
  /\ \A x \in (j + 2)..k : IsDigit(t[x])
  /\ k < Len(t) => ~IsDigit(t[k + 1])

\* the code parsed from a title is the one that starts first
IsParsedCode(t, i, j, k) ==
  /\ IsCodeAt(t, i, j, k)
  /\ \A i2 \in 1..(i - 1) : \A j2, k2 \in 1..Len(t) : ~IsCodeAt(t, i2, j2, k2)

\* q[a..b] is the first run of characters of a class in q
IsFirstRun(q, a, b, class) ==
  /\ 1 <= a /\ a <= b /\ b <= Len(q)
  /\ \A x \in a..b : q[x] \in class
  /\ \A x \in 1..(a - 1) : q[x] \notin class
  /\ b < Len(q) => q[b + 1] \notin class

SameIgnoringCase(u, v) ==
  /\ Len(u) = Len(v)
  /\ \A x \in DOMAIN u : ToUpperChar(u[x]) = ToUpperChar(v[x])

WithoutPlus(q) == SelectSeq(q, LAMBDA c : c # "+")

\* the title's code equals the query's: same prefix but for case, same number
CodesAgree(title, query) ==
  LET t == Trim(title)
      q == WithoutPlus(query)
  IN  \E i, j, k \in 1..Len(t) :
        /\ IsParsedCode(t, i, j, k)
        /\ \E a, b \in 1..Len(q) :
             /\ IsFirstRun(q, a, b, Letters)
             /\ SameIgnoringCase(SubSeq(t, i, j), SubSeq(q, a, b))
        /\ \E a, b \in 1..Len(q) :
             /\ IsFirstRun(q, a, b, Digits)
             /\ SubSeq(t, j + 2, k) = SubSeq(q, a, b)

\* C5: the Course Resolver returns a course record only if the (prefix,
\* number) parsed from the title as letters, separator, digits equals the
\* query's first letter run and first digit run after '+' is removed, the
\* prefix compared without regard to case and the number as a string; for
\* every other title and query the result is "no match".
C5_ResolverOnlyOnEqualCode ==
  (resolved # << >> /\ resolved[1].ok) => CodesAgree(titleText, searchQuery)

\* a lower-case title prefix resolved against an upper-case query with '+'
C5_Witness ==
  /\ resolved # << >> /\ resolved[1].ok
  /\ titleText = << "c", "*", "1" >>
  /\ searchQuery = << "C", "+", "1" >>

\* ------------------------------------------------------------------------
\* One section row through the Section Extractor, the Date Normalizer and
\* the Term Classifier: every date range and layout within the bounds
\* ------------------------------------------------------------------------
\* the most meeting-time spans a section <li> holds
MaxSpans == 2

\* the dates a page shows: month, day, year
Date(m, d, y) == [m |-> m, d |-> d, y |-> y]

ShownDates ==
  { Date(m, d, y) : m \in {1, 5, 9, 12, 13}, d \in {1, 7, 8, 13, 20, 21, 31}, y \in {2024, 2025} }
  \cup { Date(0, 13, 2025), Date(9, 0, 2024), Date(9, 1, 0) }

\* how a page writes a range: the style of each date, the text between the
\* two dates and the text before the range
Layouts ==
  { [style |-> "MM/DD/YYYY", sep |-> << " ", "-", " " >>, lead |-> NoText],
    [style |-> "M/D/YYYY",   sep |-> << " ", "-", " " >>, lead |-> NoText],
    [style |-> "MM/DD/YY",   sep |-> << " ", "-", " " >>, lead |-> NoText],
    [style |-> "MM/DD/YYYY", sep |-> << "-" >>,           lead |-> NoText],
    [style |-> "MM/DD/YYYY", sep |-> << " ", "-", " " >>, lead |-> << "D","a","t","e","s",":"," " >>] }

Pad2(n) == << DigitSeq[(n \div 10) + 1], DigitSeq[(n % 10) + 1] >>

Pad4(n) == Pad2(n \div 100) \o Pad2(n % 100)

Unpadded(n) == IF n < 10 THEN << DigitSeq[n + 1] >> ELSE Pad2(n)

WriteDate(date, style) ==
  CASE style = "MM/DD/YYYY" -> Pad2(date.m) \o << "/" >> \o Pad2(date.d) \o << "/" >> \o Pad4(date.y)
    [] style = "M/D/YYYY"   -> Unpadded(date.m) \o << "/" >> \o Unpadded(date.d) \o << "/" >> \o Pad4(date.y)
    [] style = "MM/DD/YY"   -> Pad2(date.m) \o << "/" >> \o Pad2(date.d) \o << "/" >> \o Pad2(date.y % 100)

\* the text of the span that holds the range
WriteRange(sh) ==
  sh.layout.lead \o WriteDate(sh.start, sh.layout.style) \o sh.layout.sep
    \o WriteDate(sh.end, sh.layout.style)

\* a span with meeting times and no dates, and a span with another range
TimesText == << "M","W","F"," ","9",":","0","0" >>

OtherRange == << "0","1","/","1","3","/","2","0","2","5"," ","-"," ","0","5","/","0","7","/","2","0","2","5" >>

\* the spans of the row: some spans of times, the range, and perhaps a span
\* with another range after it
WriteSpans(sh) ==
  [ i \in 1..sh.before |-> TimesText ] \o << WriteRange(sh) >>
    \o (IF sh.after THEN << OtherRange >> ELSE << >>)

InitDate ==
  /\ shown \in { sh \in [start : ShownDates, end : ShownDates, layout : Layouts,
                         before : 0..(MaxSpans - 1), after : BOOLEAN] :
                   sh.before + 1 + (IF sh.after THEN 1 ELSE 0) <= MaxSpans }
  /\ li = [link |-> "01", officeHours |-> "Staff", seatsText |-> "3",
           spans |-> WriteSpans(shown)]
  /\ course = << >>
  /\ terms = << >>
  /\ result = << >>
  /\ browser = "undefined"
  /\ pc = [r \in Reqs |-> "idle"]
  /\ name = [r \in Reqs |-> NoText]
  /\ page = [r \in Reqs |-> "undefined"]
  /\ sent = [r \in Reqs |-> << >>]
  /\ details = [r \in Reqs |-> NullCourse]
  /\ timedOut = [r \in Reqs |-> "none"]
  /\ steps = [r \in Reqs |-> << >>]
  /\ closes = [r \in Reqs |-> 0]
  /\ rejected = [r \in Reqs |-> FALSE]
  /\ seen = [r \in Reqs |-> << >>]
  /\ rendered = << >>
  /\ panel = << >>
  /\ reply = << >>
  /\ titleText = NoText
  /\ searchQuery = NoText
  /\ resolved = << >>

\* the map of lines 188-202 on the <li>
ExtractSection ==
  /\ course = << >>
  /\ course' = << ExtractRow(li) >>
  /\ UNCHANGED << shown, li, terms, result >>
  /\ UNCHANGED << handlerVars, resolverVars, rowsVars >>

\* lines 209-303 on the row: the buckets after forEach, and the terms kept
ClassifySection ==
  /\ course # << >>
  /\ terms = << >>
  /\ terms' = << ClassifyAll(EmptyTerms, course) >>
  /\ result' = << sortedCoursesAndTerms(course) >>
  /\ UNCHANGED << shown, li, course >>
  /\ UNCHANGED << handlerVars, resolverVars, rowsVars >>

NextDate == ExtractSection \/ ClassifySection

SpecDate == InitDate /\ [][NextDate]_vars

\* ------------------------------------------------------------------------
\* Properties of the handler (specification Spec)
\* ------------------------------------------------------------------------
Answered(r) == sent[r] # << >>

LastStep(r) == IF steps[r] = << >> THEN "none" ELSE steps[r][Len(steps[r])]

RenderWaitStages ==
  { "SearchListReady", "FirstResultRendered", "SectionsToggleVisible",
    "TermsPanelReady", "TermHeadersRendered" }

\* C1: for every request that opened a page, on every exit path, the page
\* is closed exactly once and only after the response was sent; no request
\* that has ended still has its page open.
C1_SessionReleasedOnce ==
  \A r \in Reqs :
    /\ closes[r] <= 1
    /\ (page[r] = "closed") <=> (closes[r] = 1)
    /\ closes[r] = 1 => Answered(r)
    /\ (pc[r] = "done" /\ page[r] # "undefined") => page[r] = "closed"

\* a request that ended on the unexpected-failure path with its page closed
C1_Witness ==
  \E r \in Reqs :
    /\ pc[r] = "done"
    /\ page[r] = "closed"
    /\ closes[r] = 1
    /\ sent[r][1].status = 500

\* C2: a timeout of any of the five render-wait stages is handled locally;
\* no stage timeout ends the request with UnexpectedFailure (status 500).
C2_NoStageTimeoutIsUnexpected ==
  \A r \in Reqs :
    (timedOut[r] \in RenderWaitStages /\ Answered(r)) => sent[r][1].status # 500

\* C3: the request ends with NotFound when the search list does not render
\* in time, when the result list has no rows, and when the resolver finds no
\* match; the first two give the "no results" reason, the third the "no
\* exact match" reason.
C3_NotFoundCases ==
  \A r \in Reqs :
    Answered(r) =>
      /\ Len(sent[r]) = 1
      /\ (timedOut[r] = "SearchListReady" \/ (timedOut[r] = "none" /\ LastStep(r) = "courseExists"))
           => /\ sent[r][1].status = 404
              /\ sent[r][1].message = "No results found for course"
      /\ (LastStep(r) = "courseDetails" /\ ~details[r].ok)
           => /\ sent[r][1].status = 404
              /\ sent[r][1].message = "No exact match found for course"

\* one request ended by the search-list timeout, or by an unresolved course
C3_Witness ==
  \E r \in Reqs :
    /\ pc[r] = "done"
    /\ timedOut[r] = "SearchListReady"
    /\ sent[r][1].status = 404
    /\ \E q \in Reqs :
         /\ pc[q] = "done"
         /\ LastStep(q) = "courseDetails"
         /\ sent[q][1].message = "No exact match found for course"

LaterSteps == { "TermsPanelReady", "TermHeadersRendered", "extractedData", "classification" }

\* C4: when the course was resolved and the SectionsToggleVisible stage
\* times out or the toggle is absent, the request ends with Success carrying
\* the resolved course and an empty sortedCoursesAndTerms; TermsPanelReady,
\* TermHeadersRendered and the Section Extractor are not run.
C4_ToggleUnavailableIsSuccess ==
  \A r \in Reqs :
    ( /\ Answered(r)
      /\ details[r].ok
      /\ \/ timedOut[r] = "SectionsToggleVisible"
         \/ (timedOut[r] = "none" /\ LastStep(r) = "buttonExists") )
    => /\ sent[r] = << [status |-> 200, error |-> "", message |-> "",
                        course |-> details[r], sortedCoursesAndTerms |-> << >>] >>
       /\ \A i \in DOMAIN steps[r] : steps[r][i] \notin LaterSteps

\* a request ended by the toggle's timeout, another by the absent toggle
C4_Witness ==
  \E r, q \in Reqs :
    /\ pc[r] = "done" /\ timedOut[r] = "SectionsToggleVisible" /\ sent[r][1].status = 200
    /\ pc[q] = "done" /\ timedOut[q] = "none" /\ LastStep(q) = "buttonExists"
    /\ sent[q][1].status = 200

\* C13: when navigation to the search page fails or exceeds its budget the
\* request ends with NavigationFailed (status 503), and no render wait,
\* resolver or extraction step is run for it.
C13_NavigationFailureEndsRequest ==
  \A r \in Reqs :
    timedOut[r] = "navigation" =>
      /\ Len(sent[r]) = 1
      /\ sent[r][1].status = 503
      /\ sent[r][1].error = "Navigation failed"
      /\ steps[r] = << "navigation" >>

\* a request whose navigation failed has ended and closed its page
C13_Witness ==
  \E r \in Reqs :
    /\ pc[r] = "done"
    /\ timedOut[r] = "navigation"
    /\ sent[r][1].status = 503
    /\ page[r] = "closed"

\* the first call of a run that did not succeed
FirstFailure(obs) ==
  LET failed == { k \in DOMAIN obs : ~obs[k].ok }
  IN  obs[CHOOSE k \in failed : \A j \in failed : k <= j]

Observed(obs, step) == obs[CHOOSE k \in DOMAIN obs : obs[k].step = step]

\* the handler run alone, from its entry to its response, on a query and on
\* what the calls it awaits return
RunAlone(query, obs) ==
  IF query = NoText THEN InvalidBody
  ELSE IF \A k \in DOMAIN obs : obs[k].ok
    THEN Success(courseDetails(Observed(obs, "courseDetails").text, PageDescription, query),
                 sortedCoursesAndTerms(extractedData(Observed(obs, "extractedData").lis)))
  ELSE LET step == FirstFailure(obs).step
       IN  IF step = "navigation" THEN NavigationFail
           ELSE IF step \in { "SearchListReady", "courseExists" } THEN NoResults
           ELSE IF step = "courseDetails" THEN NoExactMatch
           ELSE IF step \in { "SectionsToggleVisible", "buttonExists", "click" }
             THEN Success(courseDetails(Observed(obs, "courseDetails").text, PageDescription, query), << >>)
           ELSE InternalError

\* C14: under every interleaving of the requests each request works on its
\* own page and its own term buckets: its outcome is the one it has when
\* run alone on the same page content, and only its own run closes its page.
C14_RequestsAreIsolated ==
  \A r \in Reqs :
    /\ Answered(r) => sent[r] = << RunAlone(name[r], seen[r]) >>
    /\ page[r] = "closed" => (pc[r] = "done" /\ closes[r] = 1)
    /\ closes[r] > 0 => page[r] = "closed"

\* one request has ended with sections and closed its page while another,
\* which opened its page in between, is still in its pipeline
C14_Witness ==
  \E r, q \in Reqs :
    /\ r # q
    /\ pc[r] = "done" /\ page[r] = "closed"
    /\ sent[r][1].status = 200 /\ sent[r][1].sortedCoursesAndTerms # << >>
    /\ page[q] = "open" /\ pc[q] = "TermsPanelReady"

\* C15: the pipeline is deterministic: two runs of the same query that meet
\* the same rendering outcomes and the same page content give the same
\* outcome, with the same course and the same terms and sections in order.
C15_SameRunsSameOutcome ==
  \A r, q \in Reqs :
    (Answered(r) /\ Answered(q) /\ name[r] = name[q] /\ seen[r] = seen[q])
      => sent[r] = sent[q]

\* two requests met the same page and both answered with its sections
C15_Witness ==
  \E r, q \in Reqs :
    /\ r # q
    /\ pc[r] = "done" /\ pc[q] = "done"
    /\ name[r] = name[q] /\ seen[r] = seen[q]
    /\ sent[r][1].status = 200 /\ sent[r][1].sortedCoursesAndTerms # << >>
    /\ sent[q] = sent[r]

\* the steps in the order of the handler's code; the toggle activation is
\* the check of the button and the click
StepOrder ==
  << "navigation", "SearchListReady", "courseExists", "FirstResultRendered",
     "courseDetails", "SectionsToggleVisible", "buttonExists", "click",
     "TermsPanelReady", "TermHeadersRendered", "extractedData", "classification" >>

\* C16: the steps of a request occur in the order navigation,
\* SearchListReady, result-count check, FirstResultRendered, resolver,
\* SectionsToggleVisible, toggle activation, TermsPanelReady,
\* TermHeadersRendered, extractor, classification; each is attempted at
\* most once, a step starts only after the previous one succeeded, and no
\* step runs after one that failed or timed out.
C16_StepsInOrderOnceEach ==
  \A r \in Reqs :
    /\ Len(steps[r]) <= Len(StepOrder)
    /\ steps[r] = SubSeq(StepOrder, 1, Len(steps[r]))
    /\ \A k \in DOMAIN seen[r] : ~seen[r][k].ok => k = Len(seen[r])
    /\ (seen[r] # << >> /\ ~seen[r][Len(seen[r])].ok) =>
         /\ Answered(r)
         /\ LastStep(r) = seen[r][Len(seen[r])].step \/ steps[r] = << >>

\* one request ran all the steps, another stopped at a wait that timed out
C16_Witness ==
  \E r, q \in Reqs :
    /\ pc[r] = "done" /\ steps[r] = StepOrder
    /\ pc[q] = "done" /\ timedOut[q] = "TermsPanelReady"
    /\ LastStep(q) = "TermsPanelReady"

Outcomes == { 400, 200, 404, 503, 500 }

\* C19: every request eventually ends with exactly one outcome out of
\* InputError, Success, NotFound, NavigationFailed and UnexpectedFailure,
\* given that navigation and every wait succeeds or times out; no path
\* sends two responses and none ends without a response.
C19_ExactlyOneOutcome ==
  \A r \in Reqs :
    /\ [](Len(sent[r]) <= 1)
    /\ []((pc[r] \in { "closing", "done" }) =>
            (Len(sent[r]) = 1 /\ sent[r][1].status \in Outcomes))
    /\ (pc[r] # "idle") ~> (pc[r] = "done" /\ Len(sent[r]) = 1)

\* two requests have ended, one with Success and one with UnexpectedFailure
C19_Witness ==
  \E r, q \in Reqs :
    /\ pc[r] = "done" /\ Len(sent[r]) = 1 /\ sent[r][1].status = 200
    /\ pc[q] = "done" /\ Len(sent[q]) = 1 /\ sent[q][1].status = 500

\* C17: the browser is ready before any request is served: no request
\* calls browser.newPage() while the launch has not completed.
C17_BrowserReadyBeforeRequests ==
  \A r \in Reqs :
    \A k \in DOMAIN seen[r] : seen[r][k].step = "newPage" => seen[r][k].ok

\* C18: on the paths where no page was opened the cleanup performs no close
\* and raises no fault: the handler completes normally after its response.
C18_NoFaultWithoutPage ==
  \A r \in Reqs :
    (pc[r] = "done" /\ page[r] = "undefined") => (closes[r] = 0 /\ ~rejected[r])

\* ------------------------------------------------------------------------
\* Properties of the resolver's neighbours: extractor, normaliser and
\* classifier (specification SpecDate), stated on the dates the page shows
\* ------------------------------------------------------------------------
LengthOfMonth(m, y) ==
  IF m = 2 THEN (IF (y % 4 = 0 /\ y % 100 # 0) \/ y % 400 = 0 THEN 29 ELSE 28)
  ELSE IF m \in {4, 6, 9, 11} THEN 30 ELSE 31

\* the date is one of the calendar
IsCalendarDate(date) ==
  /\ date.y >= 1
  /\ date.m \in 1..12
  /\ date.d \in 1..LengthOfMonth(date.m, date.y)

\* date a is on or after date b
OnOrAfter(a, b) ==
  \/ a.y > b.y
  \/ a.y = b.y /\ a.m > b.m
  \/ a.y = b.y /\ a.m = b.m /\ a.d >= b.d

\* the configured term windows, as calendar dates
TermWindows ==
  << [term |-> "Fall 2024",   start |-> Date(9, 1, 2024),  end |-> Date(12, 20, 2024)],
     [term |-> "Spring 2025", start |-> Date(1, 13, 2025), end |-> Date(5, 7, 2025)],
     [term |-> "Fall 2025",   start |-> Date(9, 1, 2025),  end |-> Date(12, 20, 2025)] >>

WindowContains(w, start, end) == OnOrAfter(start, w.start) /\ OnOrAfter(w.end, end)

\* the layout "MM/DD/YYYY - MM/DD/YYYY", padded or not
PlainLayout(layout) ==
  /\ layout.style \in {"MM/DD/YYYY", "M/D/YYYY"}
  /\ layout.sep = << " ", "-", " " >>
  /\ layout.lead = NoText

Classified == terms # << >>

\* the row's date text is the range the page shows
DatesAreShown == course # << >> /\ course[1].dates = WriteRange(shown)

InNoBucket == \A i \in DOMAIN terms[1] : terms[1][i].sections = << >>

\* each bucket holds the row when, and only when, its window contains the range
BucketsFollowContainment ==
  \A i \in DOMAIN TermWindows :
    /\ terms[1][i].term = TermWindows[i].term
    /\ Len(terms[1][i].sections) =
         (IF WindowContains(TermWindows[i], shown.start, shown.end) THEN 1 ELSE 0)

\* C6: for every valid date range and each of the configured windows (Fall
\* 2024, Spring 2025, Fall 2025) the section is appended to the window's
\* bucket if and only if start >= window.start and end <= window.end, in
\* every window that matches; so a range inside one window lands in that
\* bucket only, and a range that starts in one window and ends in a later
\* one lands in none.
C6_ContainmentClassification ==
  ( /\ Classified
    /\ PlainLayout(shown.layout)
    /\ IsCalendarDate(shown.start)
    /\ IsCalendarDate(shown.end) )
  => BucketsFollowContainment

\* the range from the first to the last day of Fall 2024, in that bucket only
C6_Witness ==
  /\ Classified
  /\ PlainLayout(shown.layout)
  /\ shown.start = Date(9, 1, 2024)
  /\ shown.end = Date(12, 20, 2024)
  /\ Len(terms[1][1].sections) = 1
  /\ terms[1][2].sections = << >>
  /\ terms[1][3].sections = << >>

WindowOf(term) ==
  termConstraints[CHOOSE i \in DOMAIN termConstraints : termConstraints[i].term = term]

InsideWindow(day, w) == day >= w.start.day /\ day <= w.end.day

\* C7: in every result, each section listed under a term has both its
\* startDate and its endDate inside that term's window, also when the page
\* text has the start date after the end date.
C7_SectionsInsideWindow ==
  result # << >> =>
    \A i \in DOMAIN result[1] :
      \A k \in DOMAIN result[1][i].sections :
        /\ InsideWindow(result[1][i].sections[k].startDate, WindowOf(result[1][i].term))
        /\ InsideWindow(result[1][i].sections[k].endDate, WindowOf(result[1][i].term))

\* C8: the Date Normalizer rejects every date-range text in which either
\* side is no valid calendar date (a month above 12, a day beyond the
\* month's length), and the row is added to no term bucket.
C8_InvalidCalendarDatesRejected ==
  ( /\ Classified
    /\ DatesAreShown
    /\ ~IsCalendarDate(shown.start) \/ ~IsCalendarDate(shown.end) )
  => InNoBucket

\* C9: a row whose first date-range span is written with two-digit years is
\* taken by the Section Extractor as the row's date text and is classified
\* as the same range written with four-digit years.
C9_TwoDigitYearsAccepted ==
  ( /\ shown.layout.style = "MM/DD/YY"
    /\ IsCalendarDate(shown.start)
    /\ IsCalendarDate(shown.end) )
  => /\ course # << >> => DatesAreShown
     /\ Classified => BucketsFollowContainment

\* a part of the range's text is zero, or is not a number
HasZeroOrNonNumericPart ==
  \/ 0 \in { shown.start.m, shown.start.d, shown.start.y }
  \/ 0 \in { shown.end.m, shown.end.d, shown.end.y }
  \/ shown.layout.lead # NoText

\* C10: for every date-range text in which a month, day or year part of the
\* start or of the end is zero or not a number, the Date Normalizer rejects
\* the text and the row is added to no term bucket.
C10_ZeroPartsRejected ==
  (Classified /\ DatesAreShown /\ HasZeroOrNonNumericPart) => InNoBucket

\* a range with day 0 on its end side, and one with a non-numeric month
C10_Witness ==
  /\ Classified
  /\ DatesAreShown
  /\ InNoBucket
  /\ \/ /\ shown.start = Date(9, 1, 2024)
        /\ shown.end = Date(9, 0, 2024)
        /\ PlainLayout(shown.layout)
     \/ /\ shown.layout.lead # NoText
        /\ shown.start = Date(9, 1, 2024)
        /\ shown.end = Date(12, 20, 2024)

\* C20: the Section Extractor and the Date Normalizer agree on what a date
\* range is: every text the extractor takes as a row's dates (with no or
\* extra spaces around '-', or inside other text) whose parts are calendar
\* dates is accepted by the normaliser and classified, not dropped.
C20_ExtractorAndNormalizerAgree ==
  ( /\ Classified
    /\ DatesAreShown
    /\ IsCalendarDate(shown.start)
    /\ IsCalendarDate(shown.end)
    /\ OnOrAfter(shown.end, shown.start) )
  => BucketsFollowContainment

\* ------------------------------------------------------------------------
\* The rows of one terms panel: extraction, classification and the response
\* (specification SpecRows)
\* ------------------------------------------------------------------------
\* the number of section <li>s of the panel
MaxRows == 3

Text0903to1216 == << "0","9","/","0","3","/","2","0","2","4"," ","-"," ","1","2","/","1","6","/","2","0","2","4" >>

Text0113to0507 == << "0","1","/","1","3","/","2","0","2","5"," ","-"," ","0","5","/","0","7","/","2","0","2","5" >>

Text0601to0731 == << "0","6","/","0","1","/","2","0","2","5"," ","-"," ","0","7","/","3","1","/","2","0","2","5" >>

Text0120to0501 == << "0","1","/","2","0","/","2","0","2","5"," ","-"," ","0","5","/","0","1","/","2","0","2","5" >>

Text0901to1220 == << "0","9","/","0","1","/","2","0","2","5"," ","-"," ","1","2","/","2","0","/","2","0","2","5" >>

TextZeroMonth == << "0","0","/","0","3","/","2","0","2","4"," ","-"," ","1","2","/","1","6","/","2","0","2","4" >>

TextNoSpaces == << "0","9","/","0","3","/","2","0","2","4","-","1","2","/","1","6","/","2","0","2","4" >>

PanelLi(link, spans) == [link |-> link, officeHours |-> "Staff", seatsText |-> "3", spans |-> spans]

\* the section <li>s a terms panel is made of: one of Fall 2024, two of
\* Spring 2025, one of Fall 2025, one in no term, one with no dates, one
\* with a zero month, one written "a-b"
PanelRows ==
  { PanelLi("FA", << TimesText, Text0903to1216 >>),
    PanelLi("SP", << Text0113to0507 >>),
    PanelLi("SP2", << Text0120to0501 >>),
    PanelLi("FA25", << Text0901to1220 >>),
    PanelLi("SU", << Text0601to0731 >>),
    PanelLi("TBA", << TimesText >>),
    PanelLi("ZERO", << TextZeroMonth >>),
    PanelLi("TIGHT", << TextNoSpaces >>) }

PanelCourse == [ok |-> TRUE, name |-> << "C","S","*","1" >>, description |-> PageDescription]

InitRows ==
  /\ panel \in UNION { [1..k -> PanelRows] : k \in 0..MaxRows }
  /\ reply = << >>
  /\ browser = "undefined"
  /\ pc = [r \in Reqs |-> "idle"]
  /\ name = [r \in Reqs |-> NoText]
  /\ page = [r \in Reqs |-> "undefined"]
  /\ sent = [r \in Reqs |-> << >>]
  /\ details = [r \in Reqs |-> NullCourse]
  /\ timedOut = [r \in Reqs |-> "none"]
  /\ steps = [r \in Reqs |-> << >>]
  /\ closes = [r \in Reqs |-> 0]
  /\ rejected = [r \in Reqs |-> FALSE]
  /\ seen = [r \in Reqs |-> << >>]
  /\ rendered = << >>
  /\ titleText = NoText
  /\ searchQuery = NoText
  /\ resolved = << >>
  /\ shown = << >>
  /\ li = << >>
  /\ course = << >>
  /\ terms = << >>
  /\ result = << >>

\* lines 180-308 on the panel: extractedData, the forEach, the filter and
\* res.json
AnswerPanel ==
  /\ reply = << >>
  /\ reply' = << Success(PanelCourse, sortedCoursesAndTerms(extractedData(panel))) >>
  /\ UNCHANGED panel
  /\ UNCHANGED << handlerVars, resolverVars, dateVars >>

NextRows == AnswerPanel

SpecRows == InitRows /\ [][NextRows]_vars

\* the row has the "no date info" sentinel or is rejected by the normaliser
IsSkipped(row) == row.dates = NoDateInfo \/ ~NormalizeDates(row.dates).ok

SectionNames(termList) ==
  UNION { { termList[i].sections[k].name : k \in DOMAIN termList[i].sections } :
          i \in DOMAIN termList }

\* C11: a skipped row never aborts the request: a row with the "no date
\* info" sentinel or rejected by the normaliser is in no bucket, the other
\* rows are classified as if the skipped rows were not in the sequence, and
\* the outcome is Success.
C11_RowSkipNeverAborts ==
  reply # << >> =>
    LET rows == extractedData(panel)
        kept == SelectSeq(rows, LAMBDA row : ~IsSkipped(row))
    IN  /\ reply[1].status = 200
        /\ \A k \in DOMAIN rows :
             IsSkipped(rows[k]) =>
               rows[k].sectionName \notin SectionNames(reply[1].sortedCoursesAndTerms)
        /\ reply[1].sortedCoursesAndTerms = sortedCoursesAndTerms(kept)

\* a row with no dates and a row with a zero month come before a Fall 2024
\* row, and the response lists that row
C11_Witness ==
  /\ reply # << >>
  /\ Len(panel) = 3
  /\ panel[1].link = "TBA" /\ panel[2].link = "ZERO" /\ panel[3].link = "FA"
  /\ IsSkipped(ExtractRow(panel[1])) /\ IsSkipped(ExtractRow(panel[2]))
  /\ SectionNames(reply[1].sortedCoursesAndTerms) = { "FA" }

\* the terms in the configured order
TermOrder == << "Fall 2024", "Spring 2025", "Fall 2025" >>

TermPosition(term) == CHOOSE i \in DOMAIN TermOrder : TermOrder[i] = term

\* the term whose window holds the dates the panel row shows
RowTerm(link) ==
  IF link = "FA" THEN "Fall 2024"
  ELSE IF link \in { "SP", "SP2" } THEN "Spring 2025"
  ELSE IF link = "FA25" THEN "Fall 2025"
  ELSE "none"

PanelLinks == [k \in DOMAIN panel |-> panel[k].link]

\* C12: in a Success result the terms are in the configured order, each at
\* most once, no listed term has an empty section list, and the sections
\* of a term keep the order of the extracted rows.
C12_TermsOrderedSectionsInRowOrder ==
  reply # << >> =>
    LET out == reply[1].sortedCoursesAndTerms
    IN  /\ \A i, j \in DOMAIN out :
             i < j => TermPosition(out[i].term) < TermPosition(out[j].term)
        /\ \A i \in DOMAIN out :
             /\ out[i].term \in Range(TermOrder)
             /\ out[i].sections # << >>
             /\ [k \in DOMAIN out[i].sections |-> out[i].sections[k].name]
                  = SelectSeq(PanelLinks, LAMBDA link : RowTerm(link) = out[i].term)

\* the rows come as Spring, Fall, Spring: Fall 2024 is listed first, and
\* Spring 2025 has its two sections in the order of the rows
C12_Witness ==
  /\ reply # << >>
  /\ PanelLinks = << "SP2", "FA", "SP" >>
  /\ Len(reply[1].sortedCoursesAndTerms) = 2
  /\ reply[1].sortedCoursesAndTerms[1].term = "Fall 2024"
  /\ reply[1].sortedCoursesAndTerms[2].sections[1].name = "SP2"
  /\ reply[1].sortedCoursesAndTerms[2].sections[2].name = "SP"
====
